---- MODULE Spec2Model ----
(***************************************************************************)
(* TChannelConnectionBase (connection_base.js): the operation tables, the  *)
(* pending counters, the timeout sweep and the teardown of one connection. *)
(*                                                                         *)
(* Execution is single threaded.  A handler runs without interruption up   *)
(* to the point where it emits an event; there control is with the         *)
(* listener, which may call back into the connection before it returns.    *)
(* `stack` holds the handlers suspended in an emit, innermost last.        *)
(* Every emit of the model has a listener attached (an 'error' emitted     *)
(* without one would be rethrown by the emitter).                          *)
(***************************************************************************)
EXTENDS Integers, Sequences, FiniteSets, TLC

\* ---------------------------------------------------------------- bounds
MaxOps == 2        \* operations registered over the life of the connection
MaxTime == 2       \* last value of the clock
MaxBase == 3       \* largest options.timeoutCheckInterval
MaxFuzz == 5       \* largest options.timeoutFuzz
RandomSteps == 8   \* self.random() draws n / RandomSteps, n < RandomSteps

Ids == {1, 2}              \* frame ids the request builder / the peer assigns
TimeoutOptions == {0, 1}   \* options.timeout; 0: not given
InTTLs == {1}              \* ttl carried by a decoded incoming request
ResetErrs == {"tchannel.socket-closed", "other", "none"}  \* "none": no err

\* ------------------------------------------------------ program constants
DEFAULT_OUTGOING_REQ_TIMEOUT == 2000

VARIABLES
    inOps,            \* self.inOps: id -> [u, start, ttl], u the record's identity
    outOps,           \* self.outOps: id -> [u, start, ttl]
    pending,          \* self.pending: [in, out]
    lastTimeoutTime,  \* self.lastTimeoutTime
    closing,          \* self.closing
    timer,            \* self.timer: "null", "armed", or "fired" (stale handle)
    ops,              \* by identity: the flags and the history of every record
    emitted,          \* notifications published by the connection
    tickQueue,        \* process.nextTick queue of runHandler closures
    now,              \* timers.now()
    stack,            \* handlers suspended in an emit
    thrown,           \* the exception the last step ended with, "" if none
    delay             \* the last getTimeoutDelay(): its inputs and result

core == <<inOps, outOps, pending, lastTimeoutTime, closing, timer, ops,
          emitted, tickQueue>>
vars == <<inOps, outOps, pending, lastTimeoutTime, closing, timer, ops,
          emitted, tickQueue, now, stack, thrown, delay>>

\* --------------------------------------------------------------- helpers
EmptyMap == [k \in {} |-> 0]

Remove(map, id) == [k \in (DOMAIN map) \ {id} |-> map[k]]

Put(map, id, u) == [k \in (DOMAIN map) \cup {id} |-> IF k = id THEN u ELSE map[k]]

\* Object.keys of a table with integer-like keys: ascending order.
ObjectKeys(map) ==
    LET S == DOMAIN map
    IN  CHOOSE s \in [1..Cardinality(S) -> S] :
            \A i, j \in 1..Cardinality(S) : i < j => s[i] < s[j]

\* The connection's own state as one value (what a handler reads and writes).
Conn == [inOps |-> inOps, outOps |-> outOps, pending |-> pending,
         lastTimeoutTime |-> lastTimeoutTime, closing |-> closing,
         timer |-> timer, ops |-> ops, emitted |-> emitted,
         tickQueue |-> tickQueue]

SetConn(m) ==
    /\ inOps' = m.inOps
    /\ outOps' = m.outOps
    /\ pending' = m.pending
    /\ lastTimeoutTime' = m.lastTimeoutTime
    /\ closing' = m.closing
    /\ timer' = m.timer
    /\ ops' = m.ops
    /\ emitted' = m.emitted
    /\ tickQueue' = m.tickQueue

\* A table entry: the operation record (TChannelClientOp, TChannelServerOp)
\* with its identity u, its start and its request's ttl.
Entry(u, start, ttl) == [u |-> u, start |-> start, ttl |-> ttl]

\* What is kept of a record by identity, in the table or not.  Of the
\* program: timedOut (TChannelClientOp), and for an incoming operation the
\* closure of handleCallRequest: id, done, res (the state of op.res, "none"
\* without one).  History: nres, the response objects built for it (0, 1,
\* or 2 for two and more); errs, the errors emitted on its request; popped,
\* the times popOutOp returned it; fin, the times pending.in was decremented
\* or zeroed for it.
NewOp(dir, id) ==
    [dir |-> dir, id |-> id, timedOut |-> FALSE, done |-> FALSE,
     res |-> "none", nres |-> 0, errs |-> <<>>, popped |-> 0, fin |-> 0]

NoArg == [id |-> 0, err |-> "", u |-> 0, r |-> 0]

\* What resetAll or onTimeoutCheck found when it was called: the entries
\* then in the tables.
Found(m) ==
    [out |-> {m.outOps[k] : k \in DOMAIN m.outOps},
     in |-> {m.inOps[k] : k \in DOMAIN m.inOps}]

\* Every suspended handler has now been re-entered: a listener of its emit
\* has called back into the connection.
MarkRe(stk) == [i \in DOMAIN stk |-> [stk[i] EXCEPT !.re = TRUE]]

Done(m, ret) == [m |-> m, st |-> "done", ret |-> ret, at |-> "", keys |-> <<>>,
                 inKeys |-> <<>>, i |-> 0, u |-> 0]
Throw(m, ret) == [m |-> m, st |-> "throw", ret |-> ret, at |-> "", keys |-> <<>>,
                  inKeys |-> <<>>, i |-> 0, u |-> 0]
Emit(m, at, inKeys, keys, i, u) ==
    [m |-> m, st |-> "emit", ret |-> "", at |-> at, keys |-> keys,
     inKeys |-> inKeys, i |-> i, u |-> u]

\* ------------------------------------------------- request / popOutOp
\* TChannelConnectionBase.prototype.request
request(m, id, timeout, t) ==
    LET ttl == IF timeout # 0 THEN timeout ELSE DEFAULT_OUTGOING_REQ_TIMEOUT
        u == Len(m.ops) + 1
    IN  Done([m EXCEPT !.ops = Append(@, NewOp("out", 0)),
                       !.outOps = Put(@, id, Entry(u, t, ttl)),
                       !.pending.out = @ + 1], "req")

\* Mutant of popOutOp: the entry goes, pending.out stays.
popOutOpKeepsCount(m, id) ==
    IF id \notin DOMAIN m.outOps
    THEN Done(m, "not found")
    ELSE LET u == m.outOps[id].u
         IN  [Done([m EXCEPT !.outOps = Remove(@, id),
                             !.ops[u].popped = @ + 1], "op") EXCEPT !.u = u]

\* TChannelConnectionBase.prototype.popOutOp
popOutOp(m, id) ==
    IF id \notin DOMAIN m.outOps
    THEN Done(m, "not found")
    ELSE LET u == m.outOps[id].u
         IN  [Done([m EXCEPT !.outOps = Remove(@, id),
                             !.pending.out = @ - 1,
                             !.ops[u].popped = @ + 1], "op") EXCEPT !.u = u]

\* Mutant of handleCallRequest: the handler is run inline, not queued.
handleCallRequestInline(m, id, ttl, t) ==
    LET u == Len(m.ops) + 1
    IN  Done([m EXCEPT !.pending.in = @ + 1,
                       !.ops = Append(@, NewOp("in", id)),
                       !.inOps = Put(@, id, Entry(u, t, ttl))], "ok")

\* ------------------------------------------------- handleCallRequest
\* TChannelConnectionBase.prototype.handleCallRequest, up to its return: the
\* handler is queued with process.nextTick.
handleCallRequest(m, id, ttl, t) ==
    LET u == Len(m.ops) + 1
    IN  Done([m EXCEPT !.pending.in = @ + 1,
                       !.ops = Append(@, NewOp("in", id)),
                       !.inOps = Put(@, id, Entry(u, t, ttl)),
                       !.tickQueue = Append(@, u)], "ok")

\* runHandler: channel.handler.handleRequest(req, buildResponse)
runHandler(m) == Done([m EXCEPT !.tickQueue = Tail(@)], "ok")

\* Mutant of opDone: the entry goes, pending.in stays.
opDoneKeepsCount(m, u) ==
    LET op == m.ops[u]
    IN  IF op.done
        THEN Done(m, "done already")
        ELSE LET m1 == [m EXCEPT !.ops[u].done = TRUE]
             IN  IF ~(op.id \in DOMAIN m.inOps /\ m.inOps[op.id].u = u)
                 THEN Done(m1, "mismatched")
                 ELSE Done([m1 EXCEPT !.inOps = Remove(@, op.id),
                                      !.ops[u].fin = @ + 1], "finalized")

\* Mutant of opDone: no `done` flag and no identity check; whatever entry
\* the id maps to is finalized.
opDoneAnyOp(m, u) ==
    LET op == m.ops[u]
        m1 == [m EXCEPT !.ops[u].done = TRUE]
    IN  IF op.id \notin DOMAIN m.inOps
        THEN Done(m1, "mismatched")
        ELSE LET v == m.inOps[op.id].u
             IN  Done([m1 EXCEPT !.inOps = Remove(@, op.id),
                                 !.pending.in = @ - 1,
                                 !.ops[v].fin = @ + 1], "finalized")

\* opDone of operation u
opDone(m, u) ==
    LET op == m.ops[u]
    IN  IF op.done
        THEN Done(m, "done already")
        ELSE LET m1 == [m EXCEPT !.ops[u].done = TRUE]
             IN  IF ~(op.id \in DOMAIN m.inOps /\ m.inOps[op.id].u = u)
                 THEN Done(m1, "mismatched")
                 ELSE Done([m1 EXCEPT !.inOps = Remove(@, op.id),
                                      !.pending.in = @ - 1,
                                      !.ops[u].fin = @ + 1], "finalized")

\* Mutant of buildResponse: refused as soon as a response exists.
buildResponseOnce(m, u) ==
    IF m.ops[u].res # "none"
    THEN Throw(m, "ResponseAlreadyStarted")
    ELSE Done([m EXCEPT !.ops[u].res = "Initial", !.ops[u].nres = 1], "res")

\* buildResponse of operation u
buildResponse(m, u) ==
    LET op == m.ops[u]
    IN  IF op.res # "none" /\ op.res # "Initial"
        THEN Throw(m, "ResponseAlreadyStarted")
        ELSE Done([m EXCEPT !.ops[u].res = "Initial",
                            !.ops[u].nres = IF @ < 2 THEN @ + 1 ELSE @],
                  "res")

\* OutgoingResponse, as far as the connection depends on it: a response
\* leaves its Initial state when it is sent or sendError is called on it,
\* and then notifies 'finish' or 'errored', once; "Done" stands for every
\* state after Initial.  sendError on a response that has left Initial
\* notifies neither.  opDone listens to both notifications.
resEnd(m, u) ==
    IF m.ops[u].res = "Initial"
    THEN opDone([m EXCEPT !.ops[u].res = "Done"], u)
    ELSE Done(m, "ended already")

\* onReqError of operation u: the incoming request emitted an error.
onReqError(m, u) ==
    LET r == IF m.ops[u].res = "none" THEN buildResponse(m, u) ELSE Done(m, "")
    IN  resEnd(r.m, u)

\* ------------------------------------------------------------- the timer
\* Math.floor(num / den), den > 0
MathFloor(num, den) == num \div den

\* Mutant of MathRound: a half is rounded down.
MathRoundHalfDown(x2) == x2 \div 2

\* Math.round(x2 / 2): the nearest integer, a half rounded up.
MathRound(x2) == (x2 + 1) \div 2

\* TChannelConnectionBase.prototype.getTimeoutDelay, self.random() having
\* returned n / RandomSteps:
\* base + Math.round(Math.floor(self.random() * fuzz) - (fuzz / 2))
getTimeoutDelay(base, fuzz, n) ==
    base + MathRound(2 * MathFloor(n * fuzz, RandomSteps) - fuzz)

\* No getTimeoutDelay() on record.
NoDelay == [base |-> 0, fuzz |-> 0, n |-> 0, delay |-> 0]

\* TChannelConnectionBase.prototype.startTimeoutTimer
startTimeoutTimer(m) == [m EXCEPT !.timer = "armed"]

\* TChannelConnectionBase.prototype.clearTimeoutTimer
clearTimeoutTimer(m) ==
    IF m.timer # "null" THEN [m EXCEPT !.timer = "null"] ELSE m

\* ---------------------------------------------------------- the sweep
\* Mutant of checkInOpsForTimeout: an operation times out as soon as its
\* age reaches its ttl.
RECURSIVE checkInOpsAtTtl(_, _, _, _)
checkInOpsAtTtl(m, opKeys, i, t) ==
    IF i > Len(opKeys) THEN m
    ELSE LET id == opKeys[i]
         IN  IF id \notin DOMAIN m.inOps
             THEN checkInOpsAtTtl(m, opKeys, i + 1, t)
             ELSE LET op == m.inOps[id]
                  IN  IF t - op.start >= op.ttl
                      THEN checkInOpsAtTtl(
                               [m EXCEPT !.inOps = Remove(@, id),
                                         !.pending.in = @ - 1,
                                         !.ops[op.u].fin = @ + 1],
                               opKeys, i + 1, t)
                      ELSE checkInOpsAtTtl(m, opKeys, i + 1, t)

\* TChannelConnectionBase.prototype.checkInOpsForTimeout, from key i on
RECURSIVE checkInOpsForTimeout(_, _, _, _)
checkInOpsForTimeout(m, opKeys, i, t) ==
    IF i > Len(opKeys) THEN m
    ELSE LET id == opKeys[i]
         IN  IF id \notin DOMAIN m.inOps
             THEN checkInOpsForTimeout(m, opKeys, i + 1, t)
             ELSE LET op == m.inOps[id]
                  IN  IF t - op.start > op.ttl
                      THEN checkInOpsForTimeout(
                               [m EXCEPT !.inOps = Remove(@, id),
                                         !.pending.in = @ - 1,
                                         !.ops[op.u].fin = @ + 1],
                               opKeys, i + 1, t)
                      ELSE checkInOpsForTimeout(m, opKeys, i + 1, t)

\* TChannelConnectionBase.prototype.onReqTimeout, up to and including the
\* emit of the Timeout error on the request
onReqTimeout(m, u) ==
    [m EXCEPT !.ops[u].timedOut = TRUE,
              !.ops[u].errs = Append(@, "tchannel.timeout-error")]

\* Mutant of onReqTimeoutReturn: lastTimeoutTime is not recorded.
onReqTimeoutForgets(m, t) == m

\* onReqTimeout, after the emit
onReqTimeoutReturn(m, t) == [m EXCEPT !.lastTimeoutTime = t]

\* Mutant of checkOutOpsForTimeout: an expired operation is marked and
\* notified while it is still in the table.
RECURSIVE checkOutOpsMarksFirst(_, _, _, _)
checkOutOpsMarksFirst(m, opKeys, i, t) ==
    IF i > Len(opKeys) THEN Done(m, "ok")
    ELSE LET id == opKeys[i]
         IN  IF id \notin DOMAIN m.outOps
             THEN Throw(m, "TypeError in checkOutOpsForTimeout")
             ELSE LET op == m.outOps[id]
                      gone == [m EXCEPT !.outOps = Remove(@, id),
                                        !.pending.out = @ - 1]
                  IN  IF m.ops[op.u].timedOut
                      THEN checkOutOpsMarksFirst(gone, opKeys, i + 1, t)
                      ELSE IF t - op.start > op.ttl
                      THEN Emit(onReqTimeout(m, op.u), "reqError", <<>>,
                                opKeys, i, op.u)
                      ELSE checkOutOpsMarksFirst(m, opKeys, i + 1, t)

\* TChannelConnectionBase.prototype.checkOutOpsForTimeout, from key i on, up
\* to the next emit.  ops[id] of a key deleted since Object.keys is undefined,
\* and op.timedOut is read before the undefined check: a TypeError.
RECURSIVE checkOutOpsForTimeout(_, _, _, _)
checkOutOpsForTimeout(m, opKeys, i, t) ==
    IF i > Len(opKeys) THEN Done(m, "ok")
    ELSE LET id == opKeys[i]
         IN  IF id \notin DOMAIN m.outOps
             THEN Throw(m, "TypeError in checkOutOpsForTimeout")
             ELSE LET op == m.outOps[id]
                      gone == [m EXCEPT !.outOps = Remove(@, id),
                                        !.pending.out = @ - 1]
                  IN  IF m.ops[op.u].timedOut
                      THEN checkOutOpsForTimeout(gone, opKeys, i + 1, t)
                      ELSE IF t - op.start > op.ttl
                      THEN Emit(onReqTimeout(gone, op.u), "reqError", <<>>,
                                opKeys, i, op.u)
                      ELSE checkOutOpsForTimeout(m, opKeys, i + 1, t)

\* Mutant of sweepRest: the removal of an incoming operation counts as a
\* strike too.
sweepRestStrikes(r, t) ==
    IF r.st # "done" THEN r
    ELSE LET m == checkInOpsForTimeout(r.m, ObjectKeys(r.m.inOps), 1, t)
         IN  Done(startTimeoutTimer(
                      IF m.inOps # r.m.inOps
                      THEN [m EXCEPT !.lastTimeoutTime = t] ELSE m),
                  "swept")

\* onTimeoutCheck once checkOutOpsForTimeout has returned r
sweepRest(r, t) ==
    IF r.st # "done" THEN r
    ELSE Done(startTimeoutTimer(
                  checkInOpsForTimeout(r.m, ObjectKeys(r.m.inOps), 1, t)),
              "swept")

\* TChannelConnectionBase.prototype.onTimeoutCheck, up to its first emit
onTimeoutCheck(m, t) ==
    IF m.closing THEN Done(m, "closing")
    ELSE IF m.lastTimeoutTime # 0
    THEN Emit([m EXCEPT !.emitted.timedOut = @ + 1], "timedOut", <<>>, <<>>,
              0, 0)
    ELSE sweepRest(checkOutOpsForTimeout(m, ObjectKeys(m.outOps), 1, t), t)

\* ------------------------------------------------------------ resetAll
\* err as resetAll forwards it: `new Error('unknown connection reset')`
\* stands in for a missing one.
ResetError(err) == IF err = "none" THEN "unknown-reset" ELSE err

\* Mutant of eachInOp: the incoming entries are left in the table.
eachInOpKeeps(m, inOpKeys) == m

\* eachInOp over inOpKeys
eachInOp(m, inOpKeys) ==
    LET gone == {inOpKeys[i] : i \in DOMAIN inOpKeys} \cap DOMAIN m.inOps
    IN  [m EXCEPT !.inOps = [k \in (DOMAIN m.inOps) \ gone |-> m.inOps[k]],
                  !.ops = [u \in DOMAIN m.ops |->
                             IF \E id \in gone : m.inOps[id].u = u
                             THEN [m.ops[u] EXCEPT !.fin = @ + 1]
                             ELSE m.ops[u]]]

\* Mutant of eachOutOp: the error is emitted on the request of an entry that
\* is left in the table.
eachOutOpKeeps(m, outOpKeys, i, err) ==
    IF i > Len(outOpKeys)
    THEN Done([m EXCEPT !.outOps = EmptyMap,
                        !.pending = [in |-> 0, out |-> 0]], "reset")
    ELSE LET id == outOpKeys[i]
         IN  IF id \notin DOMAIN m.outOps
             THEN Throw(m, "TypeError in eachOutOp")
             ELSE LET u == m.outOps[id].u
                  IN  Emit([m EXCEPT !.ops[u].errs = Append(@, ResetError(err))],
                           "reqError", <<>>, outOpKeys, i, u)

\* eachOutOp from key i on, up to the next emit, then the reset of the
\* counters.  self.outOps[id] of a key deleted since Object.keys is
\* undefined, and op.req is read from it: a TypeError.
eachOutOp(m, outOpKeys, i, err) ==
    IF i > Len(outOpKeys)
    THEN Done([m EXCEPT !.pending = [in |-> 0, out |-> 0]], "reset")
    ELSE LET id == outOpKeys[i]
         IN  IF id \notin DOMAIN m.outOps
             THEN Throw(m, "TypeError in eachOutOp")
             ELSE LET u == m.outOps[id].u
                  IN  Emit([m EXCEPT !.outOps = Remove(@, id),
                                     !.ops[u].errs = Append(@, ResetError(err))],
                           "reqError", <<>>, outOpKeys, i, u)

\* resetAll from the two forEach loops on
resetDrain(m, inOpKeys, outOpKeys, err) ==
    eachOutOp(eachInOp(m, inOpKeys), outOpKeys, 1, err)

\* Mutant of resetAll: no `closing` guard; every call drains again.
resetAllAgain(m, err) ==
    LET m2 == [clearTimeoutTimer(m) EXCEPT !.closing = TRUE]
        inOpKeys == ObjectKeys(m2.inOps)
        outOpKeys == ObjectKeys(m2.outOps)
    IN  IF ResetError(err) # "tchannel.socket-closed"
        THEN Emit([m2 EXCEPT !.emitted.error = @ + 1], "connError",
                  inOpKeys, outOpKeys, 0, 0)
        ELSE resetDrain(m2, inOpKeys, outOpKeys, err)

\* Mutant of resetAll: a reset of a closing connection reopens it.
resetAllReopens(m, err) ==
    LET m1 == clearTimeoutTimer(m)
    IN  IF m1.closing THEN Done([m1 EXCEPT !.closing = FALSE], "noop")
        ELSE LET m2 == [m1 EXCEPT !.closing = TRUE]
                 inOpKeys == ObjectKeys(m2.inOps)
                 outOpKeys == ObjectKeys(m2.outOps)
             IN  IF ResetError(err) # "tchannel.socket-closed"
                 THEN Emit([m2 EXCEPT !.emitted.error = @ + 1], "connError",
                           inOpKeys, outOpKeys, 0, 0)
                 ELSE resetDrain(m2, inOpKeys, outOpKeys, err)

\* Mutant of resetAll: the connection-level 'error' is never published.
resetAllQuiet(m, err) ==
    LET m1 == clearTimeoutTimer(m)
    IN  IF m1.closing THEN Done(m1, "noop")
        ELSE LET m2 == [m1 EXCEPT !.closing = TRUE]
             IN  resetDrain(m2, ObjectKeys(m2.inOps), ObjectKeys(m2.outOps),
                            err)

\* TChannelConnectionBase.prototype.resetAll, up to its first emit
resetAll(m, err) ==
    LET m1 == clearTimeoutTimer(m)
    IN  IF m1.closing THEN Done(m1, "noop")
        ELSE LET m2 == [m1 EXCEPT !.closing = TRUE]
                 inOpKeys == ObjectKeys(m2.inOps)
                 outOpKeys == ObjectKeys(m2.outOps)
                 isError == ResetError(err) # "tchannel.socket-closed"
             IN  IF isError
                 THEN Emit([m2 EXCEPT !.emitted.error = @ + 1], "connError",
                           inOpKeys, outOpKeys, 0, 0)
                 ELSE resetDrain(m2, inOpKeys, outOpKeys, err)

\* ---------------------------------------- a suspended handler goes on
\* The handler of frame fr, from the return of the emit it is suspended in
\* up to its next emit, its return or its throw.
Resume(m, fr, t) ==
    IF fr.fn = "onTimeoutCheck"
    THEN IF fr.at = "timedOut" THEN Done(m, "timedOut")
         ELSE sweepRest(checkOutOpsForTimeout(onReqTimeoutReturn(m, t),
                                              fr.keys, fr.i + 1, t), t)
    ELSE IF fr.at = "connError"
         THEN resetDrain(m, fr.inKeys, fr.keys, fr.arg.err)
         ELSE eachOutOp(m, fr.keys, fr.i + 1, fr.arg.err)

\* ----------------------------------------------------------------- steps
Frame(fn, arg, pre, r, re) ==
    [fn |-> fn, arg |-> arg, pre |-> pre, at |-> r.at, keys |-> r.keys,
     inKeys |-> r.inKeys, i |-> r.i, u |-> r.u, re |-> re]

\* A call of fn(arg) made now, by the owner or the event loop when no handler
\* is suspended, by the listener of the innermost emit otherwise; r is what
\* the handler does up to its first emit, its return or its throw.  A throw
\* unwinds every suspended handler.
Invoke(fn, arg, pre, r) ==
    /\ SetConn(r.m)
    /\ stack' = CASE r.st = "done" -> MarkRe(stack)
                  [] r.st = "emit" ->
                         Append(MarkRe(stack), Frame(fn, arg, pre, r, FALSE))
                  [] r.st = "throw" -> <<>>
    /\ thrown' = IF r.st = "throw" THEN r.ret ELSE ""
    /\ UNCHANGED <<now, delay>>

\* The listener of the innermost emit returns and the suspended handler
\* goes on.
ListenerReturn ==
    /\ stack # <<>>
    /\ LET n == Len(stack)
           fr == stack[n]
           r == Resume(Conn, fr, now)
       IN  /\ SetConn(r.m)
           /\ stack' = CASE r.st = "done" -> SubSeq(stack, 1, n - 1)
                         [] r.st = "emit" ->
                                [stack EXCEPT ![n] =
                                    Frame(fr.fn, fr.arg, fr.pre, r, fr.re)]
                         [] r.st = "throw" -> <<>>
           /\ thrown' = IF r.st = "throw" THEN r.ret ELSE ""
    /\ UNCHANGED <<now, delay>>

\* request(options): the builder assigns any id, also one still in flight.
Request ==
    \E id \in Ids, timeout \in TimeoutOptions :
        /\ Len(ops) < MaxOps
        /\ Invoke("request", [NoArg EXCEPT !.id = id], Found(Conn),
                  request(Conn, id, timeout, now))

\* handleCallRequest(req): the peer chooses the id and the ttl.
HandleCallRequest ==
    \E id \in Ids, ttl \in InTTLs :
        /\ Len(ops) < MaxOps
        /\ Invoke("handleCallRequest", [NoArg EXCEPT !.id = id], Found(Conn),
                  handleCallRequest(Conn, id, ttl, now))

\* popOutOp(id): a response frame with any id arrives.
PopOutOp ==
    \E id \in Ids :
        Invoke("popOutOp", [NoArg EXCEPT !.id = id], Found(Conn),
               popOutOp(Conn, id))

\* resetAll(err)
ResetAll ==
    \E err \in ResetErrs :
        Invoke("resetAll", [NoArg EXCEPT !.err = err], Found(Conn),
               resetAll(Conn, err))

\* TChannelConnectionBase.prototype.close
Close ==
    Invoke("resetAll", [NoArg EXCEPT !.err = "tchannel.socket-closed", !.r = 1],
           Found(Conn), resetAll(Conn, "tchannel.socket-closed"))

\* The current turn of the event loop is over: no handler is suspended and
\* the nextTick queue, which is drained before the loop goes on, is empty.
TurnOver == stack = <<>> /\ tickQueue = <<>>

\* The armed timer fires: onChannelTimeout.
OnTimeoutCheck ==
    /\ TurnOver
    /\ timer = "armed"
    /\ Invoke("onTimeoutCheck", NoArg, Found(Conn),
              onTimeoutCheck([Conn EXCEPT !.timer = "fired"], now))

\* The next tick: the queued runHandler.
RunHandler ==
    /\ stack = <<>>
    /\ tickQueue # <<>>
    /\ Invoke("runHandler", [NoArg EXCEPT !.u = Head(tickQueue)], Found(Conn),
              runHandler(Conn))

\* The incoming operations whose handler has been run.
InOpsRun ==
    {u \in DOMAIN ops :
        ops[u].dir = "in" /\ \A i \in DOMAIN tickQueue : tickQueue[i] # u}

\* The application handler calls the buildResponse it was given.
BuildResponse ==
    \E u \in InOpsRun :
        /\ TurnOver
        /\ Invoke("buildResponse", [NoArg EXCEPT !.u = u], Found(Conn),
                  buildResponse(Conn, u))

\* The handler sends the response it built last: 'finish' or 'errored'.
ResEnd ==
    \E u \in InOpsRun :
        /\ TurnOver
        /\ ops[u].res = "Initial"
        /\ Invoke("opDone", [NoArg EXCEPT !.u = u], Found(Conn),
                  resEnd(Conn, u))

\* A response replaced by a later buildResponse is sent all the same.
StaleResEnd ==
    \E u \in InOpsRun :
        /\ TurnOver
        /\ ops[u].nres > 1
        /\ Invoke("opDone", [NoArg EXCEPT !.u = u, !.r = 1], Found(Conn),
                  opDone(Conn, u))

\* An incoming request emits 'error'.
ReqError ==
    \E u \in DOMAIN ops :
        /\ TurnOver
        /\ ops[u].dir = "in"
        /\ Invoke("onReqError", [NoArg EXCEPT !.u = u], Found(Conn),
                  onReqError(Conn, u))

\* Time passes between two turns of the event loop.
Tick ==
    /\ TurnOver
    /\ now < MaxTime
    /\ now' = now + 1
    /\ thrown' = ""
    /\ UNCHANGED <<core, stack, delay>>

Init ==
    /\ inOps = EmptyMap
    /\ outOps = EmptyMap
    /\ pending = [in |-> 0, out |-> 0]
    /\ lastTimeoutTime = 0
    /\ closing = FALSE
    /\ timer = "armed"
    /\ ops = <<>>
    /\ emitted = [error |-> 0, timedOut |-> 0]
    /\ tickQueue = <<>>
    /\ now = 0
    /\ stack = <<>>
    /\ thrown = ""
    /\ delay = NoDelay

\* No handler is suspended: the caller is the owner or the event loop.
Owner == stack = <<>>

\* Every listener returns without calling back into the connection: each
\* operation runs to completion before the next one starts.
Next ==
    \/ Owner /\ Request
    \/ Owner /\ HandleCallRequest
    \/ Owner /\ PopOutOp
    \/ Owner /\ ResetAll
    \/ Owner /\ Close
    \/ OnTimeoutCheck
    \/ ListenerReturn
    \/ RunHandler
    \/ BuildResponse
    \/ ResEnd
    \/ StaleResEnd
    \/ ReqError
    \/ Tick

Spec == Init /\ [][Next]_vars

\* Listeners may call back into the connection before they return.  The
\* application handler builds no response: it reaches the tables through
\* opDone alone, and not at all while a handler of the connection is
\* suspended.
NextRe ==
    \/ Request
    \/ HandleCallRequest
    \/ PopOutOp
    \/ ResetAll
    \/ Close
    \/ OnTimeoutCheck
    \/ ListenerReturn
    \/ RunHandler
    \/ Tick

SpecRe == Init /\ [][NextRe]_vars

\* No registration overwrites a live entry: the ids of live operations are
\* distinct within each table.
FreshIds ==
    \A id \in Ids :
        /\ (id \in DOMAIN outOps /\ id \in DOMAIN outOps')
               => outOps'[id].u = outOps[id].u
        /\ (id \in DOMAIN inOps /\ id \in DOMAIN inOps')
               => inOps'[id].u = inOps[id].u

NextFresh ==
    \/ Owner /\ Request /\ FreshIds
    \/ Owner /\ HandleCallRequest /\ FreshIds
    \/ Owner /\ PopOutOp
    \/ Owner /\ ResetAll
    \/ Owner /\ Close
    \/ OnTimeoutCheck
    \/ ListenerReturn
    \/ RunHandler
    \/ BuildResponse
    \/ ResEnd
    \/ StaleResEnd
    \/ ReqError
    \/ Tick

\* Run to completion, and no id registered while it is live.
SpecFresh == Init /\ [][NextFresh]_vars

\* getTimeoutDelay() with any interval, any fuzz and any random draw.
GetTimeoutDelay ==
    \E base \in 0..MaxBase, fuzz \in 0..MaxFuzz, n \in 0..(RandomSteps - 1) :
        /\ delay' = [base |-> base, fuzz |-> fuzz, n |-> n,
                     delay |-> getTimeoutDelay(base, fuzz, n)]
        /\ UNCHANGED <<core, now, stack, thrown>>

\* getTimeoutDelay as a function of its inputs.
SpecDelay == Init /\ [][GetTimeoutDelay]_vars

\* request({timeout: 1}) made early enough for its ttl to run out before
\* the clock of the model stops.
TimelyRequest ==
    \E id \in Ids :
        /\ Len(ops) < MaxOps
        /\ now + 1 < MaxTime
        /\ Invoke("request", [NoArg EXCEPT !.id = id], Found(Conn),
                  request(Conn, id, 1, now))

\* The owner has seen 'timedOut' and calls resetAll.
ResetAfterTimedOut == Owner /\ emitted.timedOut > 0 /\ ResetAll

\* The outgoing side, listeners passive.
NextLive ==
    \/ Owner /\ TimelyRequest
    \/ Owner /\ PopOutOp
    \/ Owner /\ ResetAll
    \/ ResetAfterTimedOut
    \/ OnTimeoutCheck
    \/ ListenerReturn
    \/ Tick

\* Time advances, an armed timer fires, a listener returns, and the owner
\* answers 'timedOut' with resetAll.
SpecLive ==
    /\ Init
    /\ [][NextLive]_vars
    /\ WF_vars(Tick)
    /\ WF_vars(OnTimeoutCheck)
    /\ WF_vars(ListenerReturn)
    /\ WF_vars(ResetAfterTimedOut)

\* ------------------------------------------------------------ properties
\* A property of one call is stated over the reachable states: the handler,
\* applied to the state, yields a result with the property.

\* The innermost suspended handler.
Top == stack[Len(stack)]

OutEntries == {outOps[k] : k \in DOMAIN outOps}
InEntries == {inOps[k] : k \in DOMAIN inOps}

\* Operation u is the one its id maps to in its table.
LiveOut(u) == \E e \in OutEntries : e.u = u
LiveIn(u) == \E e \in InEntries : e.u = u

InOpRecords == {u \in DOMAIN ops : ops[u].dir = "in"}
OutOpRecords == {u \in DOMAIN ops : ops[u].dir = "out"}

\* The entry has outlived its ttl at time t.
Expired(e, t) == t - e.start > e.ttl

\* C1: between operations that each run to completion, with no id
\* registered twice while live, pending.out is the number of entries of the
\* outgoing table and pending.in the number of entries of the incoming one.
C1_PendingMatchesTables ==
    stack = <<>> =>
        /\ pending.out = Cardinality(DOMAIN outOps)
        /\ pending.in = Cardinality(DOMAIN inOps)

\* C1 witness: an incoming operation has been finalized and an outgoing one
\* is still pending.
C1_Witness ==
    /\ stack = <<>>
    /\ pending.out = 1
    /\ pending.in = 0
    /\ \E u \in InOpRecords : ops[u].fin = 1 /\ ops[u].done

\* What resetAll(err) promises on return, of the connection m it leaves,
\* given the entries pre it found.
ResetPost(m, pre, err) ==
    /\ m.closing
    /\ DOMAIN m.outOps = {}
    /\ DOMAIN m.inOps = {}
    /\ m.pending = [in |-> 0, out |-> 0]
    /\ \A e \in pre.out : m.ops[e.u].errs = <<ResetError(err)>>
    /\ \A e \in pre.in : m.ops[e.u].errs = <<>>

\* C2: resetAll(err) called with closing false returns, and on its return
\* every outgoing operation that was pending has been delivered err exactly
\* once, no incoming operation has been notified, both tables are empty,
\* both counters are 0 and closing is true.  The return is either that of
\* the call itself or that of the handler suspended in its last emit.
C2_ResetAllDrains ==
    /\ (stack = <<>> /\ ~closing) =>
           \A err \in ResetErrs :
               LET r == resetAll(Conn, err)
               IN  /\ r.st # "throw"
                   /\ r.st = "done" => ResetPost(r.m, Found(Conn), err)
    /\ (stack # <<>> /\ Top.fn = "resetAll") =>
           LET r == Resume(Conn, Top, now)
           IN  /\ r.st # "throw"
               /\ r.st = "done" => ResetPost(r.m, Top.pre, Top.arg.err)

\* C2 witness: a reset with an error has returned; the outgoing operation
\* got the error, the incoming one, which no sweep can have removed, is gone
\* unnotified.
C2_Witness ==
    /\ stack = <<>>
    /\ closing
    /\ now = 0
    /\ DOMAIN outOps = {} /\ DOMAIN inOps = {}
    /\ pending = [in |-> 0, out |-> 0]
    /\ \E u \in OutOpRecords : ops[u].errs = <<"other">>
    /\ \E u \in InOpRecords :
           ops[u].fin = 1 /\ ~ops[u].done /\ ops[u].errs = <<>>

\* C3: resetAll on a connection that is closing already is a no-op: it
\* returns at once and leaves the whole connection as it is (nothing
\* drained, no error delivered, no notification published).
C3_ResetAllIdempotent ==
    closing =>
        \A err \in ResetErrs :
            LET r == resetAll(Conn, err)
            IN  r.st = "done" /\ r.ret = "noop" /\ r.m = Conn

\* C3 witness: a closing connection on which a second resetAll would find
\* an outgoing and an incoming entry to drain.
C3_Witness ==
    /\ closing
    /\ stack = <<>>
    /\ DOMAIN outOps # {}
    /\ DOMAIN inOps # {}
    /\ emitted.error = 1

\* The timer has fired on a connection that is not closing: a sweep starts.
SweepStarts == TurnOver /\ timer = "armed" /\ ~closing

\* The sweep, up to its first emit.
SweepCall == onTimeoutCheck([Conn EXCEPT !.timer = "fired"], now)

\* C4: the two strikes.  (a) A sweep that starts with lastTimeoutTime = 0
\* and finds an outgoing operation with now - start > ttl removes it,
\* delivers it the timeout error, leaves lastTimeoutTime nonzero and re-arms
\* the timer, and publishes no 'timedOut'.  (b) A sweep that starts with
\* lastTimeoutTime nonzero publishes 'timedOut', scans nothing and does not
\* re-arm the timer.  (c) 'timedOut' has been published only if an outgoing
\* operation was timed out before.
C4_TwoStrikes ==
    /\ (SweepStarts /\ lastTimeoutTime = 0) =>
           LET r == SweepCall
           IN  /\ r.m.emitted = emitted
               /\ (\E e \in OutEntries : Expired(e, now)) =>
                      r.st = "emit" /\ r.at = "reqError"
    /\ (stack # <<>> /\ Top.fn = "onTimeoutCheck" /\ Top.at = "reqError") =>
           LET r == Resume(Conn, Top, now)
           IN  /\ r.st # "throw"
               /\ r.m.emitted = emitted
               /\ r.m.lastTimeoutTime # 0
               /\ r.st = "done" =>
                      /\ r.m.timer = "armed"
                      /\ \A e \in Top.pre.out :
                             Expired(e, now) =>
                                 /\ \A k \in DOMAIN r.m.outOps :
                                        r.m.outOps[k].u # e.u
                                 /\ r.m.ops[e.u].errs =
                                        <<"tchannel.timeout-error">>
    /\ (SweepStarts /\ lastTimeoutTime # 0) =>
           LET r == SweepCall
           IN  /\ r.st = "emit" /\ r.at = "timedOut"
               /\ r.m = [Conn EXCEPT !.timer = "fired",
                                     !.emitted.timedOut = @ + 1]
    /\ (stack # <<>> /\ Top.fn = "onTimeoutCheck" /\ Top.at = "timedOut") =>
           LET r == Resume(Conn, Top, now)
           IN  r.st = "done" /\ r.m = Conn /\ timer = "fired"
    /\ emitted.timedOut > 0 =>
           /\ lastTimeoutTime # 0
           /\ \E u \in OutOpRecords :
                  /\ ops[u].timedOut
                  /\ ops[u].errs = <<"tchannel.timeout-error">>

\* C4 witness: the second strike has happened; the timer stays fired.
C4_Witness ==
    /\ stack = <<>>
    /\ ~closing
    /\ emitted.timedOut = 1
    /\ timer = "fired"
    /\ \E u \in OutOpRecords : ops[u].timedOut /\ ~LiveOut(u)

\* C5: once resetAll has run, no operation is admitted: whenever no handler
\* is running on a closing connection, both tables are empty.
C5_NoAdmissionAfterReset ==
    (closing /\ stack = <<>>) =>
        DOMAIN outOps = {} /\ DOMAIN inOps = {}

\* C6: an incoming operation is finalized (entry removed, pending.in
\* decremented) at most once, and exactly once when its response ends while
\* it is live; opDone for an operation that is done already, or whose id
\* maps to no entry or to another operation, changes neither the incoming
\* table nor pending.in.
C6_FinalizedOnce ==
    \A u \in InOpRecords :
        /\ ops[u].fin <= 1
        /\ (LiveIn(u) /\ ops[u].res = "Initial") =>
               LET r == resEnd(Conn, u)
               IN  /\ r.m.inOps = Remove(inOps, ops[u].id)
                   /\ r.m.pending = [pending EXCEPT !.in = @ - 1]
                   /\ r.m.ops[u].fin = 1
        /\ (ops[u].done \/ ~LiveIn(u)) =>
               LET r == opDone(Conn, u)
               IN  r.m.inOps = inOps /\ r.m.pending = pending

\* C6 witness: opDone has run for an operation whose id mapped to another
\* one, which is still live: the stale opDone has finalized neither.
C6_Witness ==
    \E u \in InOpRecords, v \in InOpRecords :
        /\ ops[u].done /\ ops[u].fin = 0
        /\ v # u /\ ops[v].id = ops[u].id /\ LiveIn(v)
        /\ pending.in = 2

\* C7: a resetAll(err) that finds the connection not closing publishes the
\* connection-level 'error' if and only if err is not the socket-closed
\* error (a missing err counts as an error); nothing else publishes it, and
\* a connection publishes it at most once.
C7_ConnectionErrorOnce ==
    /\ emitted.error <= 1
    /\ emitted.error = 1 => closing
    /\ \A err \in ResetErrs :
           resetAll(Conn, err).m.emitted.error =
               IF ~closing /\ ResetError(err) # "tchannel.socket-closed"
               THEN emitted.error + 1
               ELSE emitted.error
    /\ stack # <<>> => Resume(Conn, Top, now).m.emitted.error = emitted.error
    /\ SweepCall.m.emitted.error = emitted.error
    /\ \A id \in Ids :
           /\ popOutOp(Conn, id).m.emitted = emitted
           /\ request(Conn, id, 0, now).m.emitted = emitted
           /\ handleCallRequest(Conn, id, 1, now).m.emitted = emitted

\* C7 witness: a reset without err has published 'error' and forwarded the
\* stand-in error to an outgoing operation.
C7_Witness ==
    /\ stack = <<>>
    /\ emitted.error = 1
    /\ \E u \in OutOpRecords : ops[u].errs = <<"unknown-reset">>

C9_SweepToleratesRemoval ==
    (stack # <<>> /\ Top.fn = "onTimeoutCheck" /\ Top.at = "reqError") =>
        Resume(Conn, Top, now).st # "throw"

\* C10: popOutOp(id) for an id with no outgoing entry returns not-found and
\* changes nothing; for an id with an entry it removes that entry and no
\* other, decrements pending.out by one and returns the operation.
C10_PopOutOp ==
    \A id \in Ids :
        LET r == popOutOp(Conn, id)
        IN  IF id \notin DOMAIN outOps
            THEN r.st = "done" /\ r.ret = "not found" /\ r.m = Conn
            ELSE LET u == outOps[id].u
                 IN  /\ r.st = "done" /\ r.ret = "op" /\ r.u = u
                     /\ DOMAIN r.m.outOps = DOMAIN outOps \ {id}
                     /\ \A k \in DOMAIN r.m.outOps : r.m.outOps[k] = outOps[k]
                     /\ r.m = [Conn EXCEPT !.outOps = r.m.outOps,
                                           !.pending.out = @ - 1,
                                           !.ops[u].popped = @ + 1]

\* C10 witness: one operation has been popped, another is pending, and a
\* listener is in a position to pop the id that is gone.
C10_Witness ==
    /\ stack # <<>>
    /\ pending.out = 1
    /\ \E u \in OutOpRecords : ops[u].popped = 1
    /\ \E id \in Ids : id \notin DOMAIN outOps

\* C11: handleCallRequest never runs the application handler inline.  When
\* it returns, the operation is registered in the incoming table and its
\* handler is queued behind the handlers queued before, with no response
\* built; a queued handler is that of a registered operation, which is in
\* the table still or has been removed from it by a sweep or a reset; and
\* the queue is not served while a handler of the connection is suspended
\* in an emit.
C11_HandlerNeverInline ==
    /\ \A i \in DOMAIN tickQueue :
           LET u == tickQueue[i]
           IN  /\ u \in InOpRecords
               /\ LiveIn(u) \/ ops[u].fin = 1
               /\ ops[u].res = "none" /\ ~ops[u].done
    /\ \A id \in Ids, ttl \in InTTLs :
           LET r == handleCallRequest(Conn, id, ttl, now)
               u == Len(ops) + 1
           IN  /\ r.st = "done"
               /\ r.m.tickQueue = Append(tickQueue, u)
               /\ r.m.inOps[id].u = u
               /\ r.m.ops[u].res = "none" /\ ~r.m.ops[u].done
    /\ stack # <<>> => ~ENABLED RunHandler

\* C11 witness: after handleCallRequest returned, the caller has gone on in
\* the same turn (it has made a request) and the handler is still queued,
\* its operation registered.
C11_Witness ==
    /\ stack = <<>>
    /\ Len(ops) = 2
    /\ tickQueue = <<1>>
    /\ LiveIn(1)
    /\ ops[2].dir = "out"

\* C12: for every interval base, every fuzz >= 0 and every random draw in
\* [0, 1), the delay getTimeoutDelay returns lies in
\* [base - fuzz / 2, base + fuzz / 2] (stated on the doubles of all three).
C12_JitterBound ==
    /\ 2 * delay.base - delay.fuzz <= 2 * delay.delay
    /\ 2 * delay.delay <= 2 * delay.base + delay.fuzz

\* C12 witness: an odd fuzz and the smallest draw: floor(r * fuzz) - fuzz / 2
\* is -2.5, which Math.round takes up to -2.
C12_Witness ==
    /\ delay.fuzz = 5
    /\ delay.n = 0
    /\ delay.delay = delay.base - 2
    /\ delay.base = MaxBase

\* C13: closing starts false, and no step (request, handleCallRequest,
\* popOutOp, opDone, a sweep, close, resetAll, or the return of a listener)
\* takes it from true back to false.
C13_ClosingMonotonic == ~closing /\ [][closing => closing']_vars

\* C13 witness: on a closing connection an operation has since been
\* registered and finalized by opDone, and a request made.
C13_Witness ==
    /\ closing
    /\ stack = <<>>
    /\ \E u \in InOpRecords : ops[u].done /\ ops[u].fin = 1
    /\ \E u \in OutOpRecords : LiveOut(u)

\* C14: an outgoing operation is resolved at most once, whatever the
\* listeners call from their callbacks: over its life it is returned by
\* popOutOp, or delivered the timeout error by a sweep, or delivered the
\* reset error by resetAll, and only one of these, once.
C14_ResolvedAtMostOnce ==
    \A u \in OutOpRecords : ops[u].popped + Len(ops[u].errs) <= 1

\* C14 witness: the listener of a timed-out request has called back into
\* the connection, popping the other request, while the sweep was
\* suspended.
C14_Witness ==
    /\ stack # <<>>
    /\ Top.fn = "onTimeoutCheck"
    /\ Top.re
    /\ \E u \in OutOpRecords, v \in OutOpRecords :
           /\ ops[u].errs = <<"tchannel.timeout-error">>
           /\ ops[v].popped = 1

\* C15: the timer is never armed on a closing connection: whenever closing
\* is true the timer handle is null.
C15_NoTimerWhileClosing == closing => timer = "null"

\* C16: when resetAll returns, the counters equal the table sizes, also if
\* its listeners have registered operations during the teardown.
C16_CountersAfterReentrantReset ==
    (stack # <<>> /\ Top.fn = "resetAll") =>
        LET r == Resume(Conn, Top, now)
        IN  r.st = "done" =>
                /\ r.m.pending.out = Cardinality(DOMAIN r.m.outOps)
                /\ r.m.pending.in = Cardinality(DOMAIN r.m.inOps)

\* C17: every outgoing operation in the table is eventually out of it.
C17_EventuallyResolved ==
    \A u \in 1..MaxOps : LiveOut(u) ~> ~LiveOut(u)

\* The entries of a table that have not outlived their ttl at time t.
Unexpired(map, t) ==
    [k \in {j \in DOMAIN map : ~Expired(map[j], t)} |-> map[k]]

\* What a part of a sweep, run at time t from the connection c and ending
\* as r, leaves alone: every unexpired entry of c is in its table still,
\* its record as it was; and if the sweep has returned, nothing else is.
SweepSpares(c, r, t) ==
    /\ \A k \in DOMAIN Unexpired(c.outOps, t) :
           /\ k \in DOMAIN r.m.outOps /\ r.m.outOps[k] = c.outOps[k]
           /\ r.m.ops[c.outOps[k].u] = c.ops[c.outOps[k].u]
    /\ \A k \in DOMAIN Unexpired(c.inOps, t) :
           /\ k \in DOMAIN r.m.inOps /\ r.m.inOps[k] = c.inOps[k]
           /\ r.m.ops[c.inOps[k].u] = c.ops[c.inOps[k].u]
    /\ r.st = "done" =>
           /\ r.m.outOps = Unexpired(c.outOps, t)
           /\ r.m.inOps = Unexpired(c.inOps, t)

\* C18: a scanning sweep removes from each table exactly the entries with
\* now - start > ttl; an entry with now - start <= ttl stays in its table,
\* its record unchanged and without an error, also when another operation
\* is timed out in the same sweep.  Stated of the sweep up to its first
\* emit, of each of its parts from the return of one emit on, and of the
\* whole on its return.
C18_SweepTouchesExpiredOnly ==
    /\ (SweepStarts /\ lastTimeoutTime = 0) =>
           SweepSpares(Conn, SweepCall, now)
    /\ (stack # <<>> /\ Top.fn = "onTimeoutCheck" /\ Top.at = "reqError") =>
           LET r == Resume(Conn, Top, now)
           IN  /\ SweepSpares(Conn, r, now)
               /\ r.st = "done" =>
                      /\ {r.m.outOps[k] : k \in DOMAIN r.m.outOps} =
                             {e \in Top.pre.out : ~Expired(e, now)}
                      /\ {r.m.inOps[k] : k \in DOMAIN r.m.inOps} =
                             {e \in Top.pre.in : ~Expired(e, now)}
                      /\ \A e \in Top.pre.out \cup Top.pre.in :
                             ~Expired(e, now) => r.m.ops[e.u].errs = <<>>

\* C18 witness: a sweep has timed out one outgoing operation and returned,
\* and an operation whose age equals its ttl is in its table still.
C18_Witness ==
    /\ stack = <<>>
    /\ lastTimeoutTime = now
    /\ \E u \in OutOpRecords :
           ops[u].errs = <<"tchannel.timeout-error">> /\ ~LiveOut(u)
    /\ \E e \in OutEntries \cup InEntries :
           now - e.start = e.ttl /\ ops[e.u].errs = <<>>

\* The incoming scan of a sweep run now.
InScan == checkInOpsForTimeout(Conn, ObjectKeys(inOps), 1, now)

\* C19: incoming timeouts are silent.  The incoming scan removes the
\* expired incoming entries, decrements pending.in by one for each, and
\* changes nothing else: no error is delivered and lastTimeoutTime is as it
\* was.  A sweep that finds no outgoing operation expired returns at once
\* having published nothing, with lastTimeoutTime 0 and the timer armed;
\* and as long as no outgoing operation has been timed out, lastTimeoutTime
\* is 0, 'timedOut' has not been published, and between sweeps the timer of
\* a connection that is not closing is armed.
C19_IncomingTimeoutsSilent ==
    /\ InScan = [Conn EXCEPT
                     !.inOps = Unexpired(inOps, now),
                     !.pending.in = @ - Cardinality(DOMAIN inOps
                                        \ DOMAIN Unexpired(inOps, now)),
                     !.ops = [u \in DOMAIN ops |->
                                 IF \E e \in InEntries :
                                        e.u = u /\ Expired(e, now)
                                 THEN [ops[u] EXCEPT !.fin = @ + 1]
                                 ELSE ops[u]]]
    /\ (SweepStarts /\ lastTimeoutTime = 0
            /\ \A e \in OutEntries : ~Expired(e, now)) =>
           LET r == SweepCall
           IN  /\ r.st = "done"
               /\ r.m.lastTimeoutTime = 0
               /\ r.m.emitted = emitted
               /\ r.m.timer = "armed"
               /\ \A u \in DOMAIN ops : r.m.ops[u].errs = ops[u].errs
    /\ (\A u \in OutOpRecords : ~ops[u].timedOut) =>
           /\ lastTimeoutTime = 0
           /\ emitted.timedOut = 0
           /\ (stack = <<>> /\ ~closing) => timer = "armed"

\* C19 witness: a sweep has removed an expired incoming operation, which
\* neither opDone nor a reset has touched; no error, no strike, timer armed.
C19_Witness ==
    /\ stack = <<>>
    /\ ~closing
    /\ lastTimeoutTime = 0
    /\ timer = "armed"
    /\ pending.in = 0
    /\ \E u \in InOpRecords :
           ops[u].fin = 1 /\ ~ops[u].done /\ ops[u].errs = <<>>

\* C20: no entry of the outgoing table is that of an operation flagged
\* timedOut, whatever the listeners call from their callbacks.
C20_NoLiveTimedOut ==
    \A e \in OutEntries : ~ops[e.u].timedOut

\* C20 witness: a sweep is suspended in the emit of a timeout error, the
\* operation is flagged, and another operation is in the table.
C20_Witness ==
    /\ stack # <<>>
    /\ Top.fn = "onTimeoutCheck"
    /\ Top.at = "reqError"
    /\ ops[Top.u].timedOut
    /\ OutEntries # {}

====
